---------------------------- MODULE Spec2Model ----------------------------
(***************************************************************************)
(* Model of the finance tracker's projection and reconciliation engine:    *)
(*   - calculate_suggested_monthly_saving  (app/finance_plan.py)           *)
(*   - generate_plan_projection            (app/finance_plan.py)           *)
(*   - generate_planned_finance            (app/finance_plan.py)           *)
(*   - add_real_finance                    (main.py)                       *)
(*   - the Generate Plan / Update table session (main.py)                  *)
(*                                                                         *)
(* Money and rates are Python floats in the source.  Here they are exact   *)
(* rationals <<numerator, denominator>> in lowest terms with a positive    *)
(* denominator, so "equal within floating-point tolerance" is modelled as  *)
(* exact equality and rounding error is outside the model.  Annual rates   *)
(* are drawn from values whose 12th root is rational, because the          *)
(* effective monthly rate (1 + r)^(1/12) - 1 must be representable.        *)
(* Calendar months are records [year, month, day].                         *)
(***************************************************************************)
EXTENDS Integers, Sequences, FiniteSets, TLC

VARIABLES
    pc,         \* position of the plan-function harness
    inp,        \* arguments handed to the plan functions
    sol,        \* result of calculate_suggested_monthly_saving at inp.rate
    alt,        \* result of calculate_suggested_monthly_saving at inp.rate2
    proj,       \* result of generate_plan_projection with inp.saving
    planned,    \* result of generate_planned_finance
    rpc,        \* position of the reconcile harness
    rin,        \* arguments handed to add_real_finance
    rout,       \* result of add_real_finance
    plan_settings,  \* st.session_state["plan_settings"]
    whole_df,       \* st.session_state["whole_df"]
    today,          \* first day of the current calendar month
    last,           \* the last button request and what it computed
    generated_from  \* the settings the stored whole_df was generated from

planVars == <<pc, inp, sol, alt, proj, planned>>
recVars == <<rpc, rin, rout>>
sessVars == <<plan_settings, whole_df, today, last, generated_from>>
vars == <<pc, inp, sol, alt, proj, planned, rpc, rin, rout, plan_settings, whole_df, today, last, generated_from>>

-----------------------------------------------------------------------------
(* Bounds of the model.                                                    *)

\* longest horizon (months) simulated when the balance does not compound
MaxHorizon == 15
\* longest horizon (months) simulated with a non-zero monthly rate
MaxCompound == 3
\* most rows of a plan handed to add_real_finance
MaxPlanRows == 3
\* most records handed to add_real_finance
MaxRecords == 2

-----------------------------------------------------------------------------
(* Float arithmetic, as exact rationals.                                   *)

Abs(x) == IF x < 0 THEN -x ELSE x

RECURSIVE GCD(_, _)
GCD(a, b) == IF b = 0 THEN a ELSE GCD(b, a % b)

RNorm(n, d) ==
    LET g == GCD(Abs(n), Abs(d))
        s == IF d < 0 THEN -1 ELSE 1
    IN  <<(s * n) \div g, (s * d) \div g>>

R(n) == <<n, 1>>
RZero == R(0)
ROne == R(1)
RAdd(a, b) == RNorm(a[1] * b[2] + b[1] * a[2], a[2] * b[2])
RSub(a, b) == RNorm(a[1] * b[2] - b[1] * a[2], a[2] * b[2])
RMul(a, b) == RNorm(a[1] * b[1], a[2] * b[2])
RDiv(a, b) == RNorm(a[1] * b[2], a[2] * b[1])
\* comparison: whole parts first, then the fractional parts
RFloor(a) == a[1] \div a[2]
RLt(a, b) ==
    IF RFloor(a) # RFloor(b) THEN RFloor(a) < RFloor(b)
    ELSE (a[1] % a[2]) * b[2] < (b[1] % b[2]) * a[2]
RLe(a, b) == a = b \/ RLt(a, b)
RMax(a, b) == IF RLt(a, b) THEN b ELSE a

RECURSIVE RPow(_, _)
RPow(a, n) == IF n = 0 THEN ROne ELSE RMul(a, RPow(a, n - 1))

\* b^k, or cap + 1 as soon as the power exceeds cap
RECURSIVE PowCap(_, _, _)
PowCap(b, k, cap) ==
    IF k = 0 THEN 1
    ELSE LET h == PowCap(b, k - 1, cap)
         IN  IF h > cap \/ (b > 0 /\ h > cap \div b) THEN cap + 1 ELSE h * b

\* the largest b >= from with b^12 <= x
RECURSIVE Root12From(_, _)
Root12From(x, from) ==
    IF PowCap(from + 1, 12, x) > x THEN from ELSE Root12From(x, from + 1)

\* a ** (1 / 12) for a rational a > 0 whose 12th root is rational
RRoot12(a) == <<Root12From(a[1], 0), Root12From(a[2], 0)>>

-----------------------------------------------------------------------------
(* Calendar months.                                                        *)

Date(y, m, d) == [year |-> y, month |-> m, day |-> d]

\* finance_plan._months_between
MonthsBetween(start, end) ==
    (end.year - start.year) * 12 + (end.month - start.month)

\* variant: the month wraps but the year is taken from the 1-based month
AddMonths_YearFromOneBased(t, i) ==
    LET k == (t.month - 1) + i
    IN  Date(t.year + ((k + 1) \div 12), (k % 12) + 1, 1)

\* initial_time.replace(day=1) + pd.DateOffset(months=i)
AddMonths(t, i) ==
    LET k == (t.month - 1) + i
    IN  Date(t.year + (k \div 12), (k % 12) + 1, 1)

DateLt(a, b) ==
    \/ a.year < b.year
    \/ a.year = b.year /\ a.month < b.month
    \/ a.year = b.year /\ a.month = b.month /\ a.day < b.day

DateLe(a, b) == a = b \/ DateLt(a, b)

-----------------------------------------------------------------------------
(* Results of a call: a returned value, or a raised ValueError.            *)

Returned(v) == [raised |-> FALSE, value |-> v]
Raised == [raised |-> TRUE, value |-> <<>>]
NotCalled == [raised |-> FALSE, value |-> "none"]

-----------------------------------------------------------------------------
(* app/finance_plan.py: calculate_suggested_monthly_saving                 *)

\* lines 37-41: annual percent -> effective monthly rate
MonthlyRate(annual_return_rate_percent) ==
    LET r_annual == RDiv(annual_return_rate_percent, R(100))
    IN  IF r_annual = RZero THEN RZero
        ELSE RSub(RRoot12(RAdd(ROne, r_annual)), ROne)

\* variant: the linear split counts the initial month as well
ClosedFormSaving_Inclusive(A, target, n, monthly_rate) ==
    IF monthly_rate = RZero
    THEN RDiv(RSub(target, A), R(n + 1))
    ELSE LET factor == RPow(RAdd(ROne, monthly_rate), n)
             denom == RDiv(RSub(factor, ROne), monthly_rate)
         IN  RDiv(RSub(target, RMul(A, factor)), denom)

\* variant: the annuity factor multiplies by the rate instead of dividing
ClosedFormSaving_DenomTimes(A, target, n, monthly_rate) ==
    IF monthly_rate = RZero
    THEN RDiv(RSub(target, A), R(n))
    ELSE LET factor == RPow(RAdd(ROne, monthly_rate), n)
             denom == RMul(RSub(factor, ROne), monthly_rate)
         IN  RDiv(RSub(target, RMul(A, factor)), denom)

\* lines 47-53: the closed-form contribution, before the floor at 0
ClosedFormSaving(A, target, n, monthly_rate) ==
    IF monthly_rate = RZero
    THEN RDiv(RSub(target, A), R(n))
    ELSE LET factor == RPow(RAdd(ROne, monthly_rate), n)
             denom == RDiv(RSub(factor, ROne), monthly_rate)
         IN  RDiv(RSub(target, RMul(A, factor)), denom)

\* variant: the result is returned without the floor at 0
CalculateSuggestedMonthlySaving_NoFloor(initial_asset, initial_time, target_asset_value, target_time, annual_return_rate_percent) ==
    LET months == MonthsBetween(initial_time, target_time)
    IN  IF months <= 0 THEN Raised
        ELSE IF RLe(target_asset_value, initial_asset) THEN Raised
        ELSE IF RLt(annual_return_rate_percent, RZero) THEN Raised
        ELSE Returned(
                 ClosedFormSaving(initial_asset, target_asset_value, months,
                                  MonthlyRate(annual_return_rate_percent)))

\* variant: an initial asset equal to the target is let through
CalculateSuggestedMonthlySaving_AllowsEqual(initial_asset, initial_time, target_asset_value, target_time, annual_return_rate_percent) ==
    LET months == MonthsBetween(initial_time, target_time)
    IN  IF months <= 0 THEN Raised
        ELSE IF RLt(target_asset_value, initial_asset) THEN Raised
        ELSE IF RLt(annual_return_rate_percent, RZero) THEN Raised
        ELSE Returned(RMax(RZero,
                 ClosedFormSaving(initial_asset, target_asset_value, months,
                                  MonthlyRate(annual_return_rate_percent))))

CalculateSuggestedMonthlySaving(initial_asset, initial_time, target_asset_value, target_time, annual_return_rate_percent) ==
    LET months == MonthsBetween(initial_time, target_time)
    IN  IF months <= 0 THEN Raised
        ELSE IF RLe(target_asset_value, initial_asset) THEN Raised
        ELSE IF RLt(annual_return_rate_percent, RZero) THEN Raised
        ELSE Returned(RMax(RZero,
                 ClosedFormSaving(initial_asset, target_asset_value, months,
                                  MonthlyRate(annual_return_rate_percent))))

-----------------------------------------------------------------------------
(* app/finance_plan.py: generate_plan_projection                           *)

\* lines 88-89: the projection's own conversion (no special case for 0)
ProjectionMonthlyRate(annual_return_rate_percent) ==
    LET r_annual == RDiv(annual_return_rate_percent, R(100))
    IN  RSub(RRoot12(RAdd(ROne, r_annual)), ROne)

\* variant: the month test and the update of start_year are left out
EscalateIncome_EveryMonthOfLaterYear(month, current_income, start_year, income_increase_rate) ==
    IF month.year > start_year
    THEN [income |-> RMul(current_income, RAdd(ROne, income_increase_rate)),
          year |-> start_year]
    ELSE [income |-> current_income, year |-> start_year]

\* lines 105-107: the income of this month and the year it was last set for
EscalateIncome(month, current_income, start_year, income_increase_rate) ==
    IF month.month = 1 /\ month.year > start_year
    THEN [income |-> RMul(current_income, RAdd(ROne, income_increase_rate)),
          year |-> month.year]
    ELSE [income |-> current_income, year |-> start_year]

\* variant: the contribution lands first and grows with the balance
GrowAsset_ContributionFirst(asset, monthly_rate, saving) ==
    RMul(RAdd(asset, saving), RAdd(ROne, monthly_rate))

\* lines 109-112: the balance grows, then the contribution lands
GrowAsset(asset, monthly_rate, saving) ==
    RAdd(RMul(asset, RAdd(ROne, monthly_rate)), saving)

\* variant: a negative budget is let through (clamped) instead of raising
Infeasible_Clamped(expense_plan) == FALSE

\* lines 116-119: the feasibility check of one month
Infeasible(expense_plan) == RLt(expense_plan, RZero)

\* lines 100-128: the loop from iteration i on; rows holds what was appended
RECURSIVE ProjectionLoop(_, _, _, _, _, _, _, _, _, _, _)
ProjectionLoop(i, months, initial_time, saving, monthly_rate, income_increase_rate, asset, cumulative, current_income, start_year, rows) ==
    IF i > months THEN Returned(rows)
    ELSE LET month == AddMonths(initial_time, i)
             e == EscalateIncome(month, current_income, start_year,
                                 income_increase_rate)
             asset2 == GrowAsset(asset, monthly_rate, saving)
             cumulative2 == RAdd(cumulative, saving)
             expense_plan == RSub(e.income, saving)
         IN  IF Infeasible(expense_plan) THEN Raised
             ELSE ProjectionLoop(i + 1, months, initial_time, saving,
                      monthly_rate, income_increase_rate, asset2, cumulative2,
                      e.income, e.year,
                      Append(rows,
                             [month |-> month,
                              total_asset_plan |-> asset2,
                              cumulative_saving_plan |-> cumulative2,
                              earned_income_plan |-> e.income,
                              expense_plan |-> expense_plan,
                              suggested_monthly_saving |-> saving]))

GeneratePlanProjection(initial_asset, initial_time, suggested_monthly_saving, target_time, monthly_earned_income, annual_return_rate_percent, annual_income_increase_rate_percent) ==
    LET months == MonthsBetween(initial_time, target_time)
    IN  IF months <= 0 THEN Raised
        ELSE ProjectionLoop(1, months, initial_time, suggested_monthly_saving,
                 ProjectionMonthlyRate(annual_return_rate_percent),
                 RDiv(annual_income_increase_rate_percent, R(100)),
                 initial_asset, RZero, monthly_earned_income,
                 initial_time.year, <<>>)

\* app/finance_plan.py: generate_planned_finance (the plan_df it returns)
GeneratePlannedFinance(current_monthly_earned_income, initial_asset, initial_time, target_asset_value, target_time, annual_return_rate_percent, annual_income_increase_rate_percent) ==
    LET s == CalculateSuggestedMonthlySaving(initial_asset, initial_time,
                 target_asset_value, target_time, annual_return_rate_percent)
    IN  IF s.raised THEN Raised
        ELSE GeneratePlanProjection(initial_asset, initial_time, s.value,
                 target_time, current_monthly_earned_income,
                 annual_return_rate_percent,
                 annual_income_increase_rate_percent)

-----------------------------------------------------------------------------
(* The plan functions applied to bounded inputs.                           *)

\* the sidebar offers first-of-month timestamps (app/user_setting.py 36-47)
Years == 2025..2027
MonthChoices == {Date(y, m, 1) : y \in Years, m \in 1..12}
InitialTimes == {Date(2025, 11, 1), Date(2025, 12, 1), Date(2026, 1, 1)}

\* annual percentages: -5, 0, and those whose monthly rate is 1/2 and 1
AnnualRates == {R(-5), R(0), <<13183625, 1024>>, R(409500)}
InitialAssets == {R(-8), R(0), R(8)}
TargetAssets == {R(0), R(8), R(40)}
Savings == {R(0), R(6), R(11)}
Incomes == {R(4), R(10)}
IncomeIncreaseRates == {R(-50), R(0), R(50)}

Compounds(rate) == RLt(RZero, rate)

HorizonOK(i) ==
    LET n == MonthsBetween(i.initial_time, i.target_time)
    IN  /\ n >= -1
        /\ n <= MaxHorizon
        /\ (Compounds(i.rate) \/ Compounds(i.rate2)) => n <= MaxCompound

PlanInputs ==
    {i \in [initial_asset : InitialAssets,
            initial_time : InitialTimes,
            target_asset_value : TargetAssets,
            target_time : MonthChoices,
            rate : AnnualRates,
            rate2 : AnnualRates,
            saving : Savings,
            income : Incomes,
            income_increase_rate : IncomeIncreaseRates] :
        HorizonOK(i) /\ RLe(i.rate, i.rate2)}

NoInput == [none |-> TRUE]

PlanIdle ==
    /\ pc = "idle"
    /\ inp = NoInput
    /\ sol = NotCalled
    /\ alt = NotCalled
    /\ proj = NotCalled
    /\ planned = NotCalled

RecIdle ==
    /\ rpc = "idle"
    /\ rin = NoInput
    /\ rout = NotCalled

\* a session in which no button has been pressed
NoSettings == [none |-> TRUE]
NotStored == [stored |-> FALSE, rows |-> <<>>]
Stored(rows) == [stored |-> TRUE, rows |-> rows]
NoRequest == [kind |-> "none", outcome |-> "none", value |-> <<>>]
FirstToday == Date(2025, 12, 1)

SessIdle ==
    /\ plan_settings = NoSettings
    /\ whole_df = NotStored
    /\ today = FirstToday
    /\ last = NoRequest
    /\ generated_from = NoSettings

PlanInit ==
    /\ pc = "input"
    /\ inp \in PlanInputs
    /\ sol = NotCalled
    /\ alt = NotCalled
    /\ proj = NotCalled
    /\ planned = NotCalled
    /\ RecIdle
    /\ SessIdle

CallSolve ==
    /\ pc = "input"
    /\ sol' = CalculateSuggestedMonthlySaving(inp.initial_asset,
                  inp.initial_time, inp.target_asset_value, inp.target_time,
                  inp.rate)
    /\ pc' = "solved"
    /\ UNCHANGED <<inp, alt, proj, planned, recVars, sessVars>>

CallSolveAlt ==
    /\ pc = "solved"
    /\ alt' = CalculateSuggestedMonthlySaving(inp.initial_asset,
                  inp.initial_time, inp.target_asset_value, inp.target_time,
                  inp.rate2)
    /\ pc' = "compared"
    /\ UNCHANGED <<inp, sol, proj, planned, recVars, sessVars>>

CallGeneratePlanned ==
    /\ pc = "compared"
    /\ planned' = GeneratePlannedFinance(inp.income, inp.initial_asset,
                      inp.initial_time, inp.target_asset_value,
                      inp.target_time, inp.rate, inp.income_increase_rate)
    /\ pc' = "planned"
    /\ UNCHANGED <<inp, sol, alt, proj, recVars, sessVars>>

\* the projection called directly with a contribution of the caller's choice
CallGenerate ==
    /\ pc = "planned"
    /\ RLe(RZero, inp.rate)
    /\ proj' = GeneratePlanProjection(inp.initial_asset, inp.initial_time,
                   inp.saving, inp.target_time, inp.income, inp.rate,
                   inp.income_increase_rate)
    /\ pc' = "done"
    /\ UNCHANGED <<inp, sol, alt, planned, recVars, sessVars>>

PlanNext == CallSolve \/ CallSolveAlt \/ CallGeneratePlanned \/ CallGenerate

SpecPlan == PlanInit /\ [][PlanNext]_vars

-----------------------------------------------------------------------------
(* main.py: add_real_finance.  A DataFrame is a sequence of rows; a row is *)
(* a function from column names to values, so a column is present in a row *)
(* exactly when it is in the row's DOMAIN.                                  *)

\* Python's None in a cell
None == <<"None">>
\* the cell a left merge leaves where no right row matched
NaN == <<"NaN">>

\* lines 133, 136: pd.to_datetime(..).dt.to_period("M").dt.to_timestamp()
NormalizeMonth(t) == Date(t.year, t.month, 1)

NormalizeMonths(df) ==
    [k \in 1..Len(df) |-> [df[k] EXCEPT !.month = NormalizeMonth(@)]]

\* line 142: records["month"].sort_values().unique()
RECURSIVE SortDates(_)
SortDates(S) ==
    IF S = {} THEN <<>>
    ELSE LET least == CHOOSE d \in S : \A e \in S : DateLe(d, e)
         IN  <<least>> \o SortDates(S \ {least})

SortedUniqueMonths(records) ==
    SortDates({records[k].month : k \in 1..Len(records)})

\* line 146
RealFields == {"salary", "expense", "asset_change", "cash_transfer"}

\* lines 148-151: the month and the real fields of every record
RecSubset(records) ==
    [k \in 1..Len(records) |->
        [c \in {"month"} \cup RealFields |->
            IF c \in DOMAIN records[k] THEN records[k][c] ELSE RZero]]

Restrict(row, cols) == [c \in cols |-> row[c]]

\* variant: an inner join, which drops the left rows nothing matched
RECURSIVE LeftMerge_Inner(_, _)
LeftMerge_Inner(plan, rec_subset) ==
    IF plan = <<>> THEN <<>>
    ELSE LET left == Head(plan)
             hits == SelectSeq(rec_subset, LAMBDA r : r.month = left.month)
             joined == [k \in 1..Len(hits) |->
                           left @@ Restrict(hits[k], RealFields)]
         IN  joined \o LeftMerge_Inner(Tail(plan), rec_subset)

\* line 153: plan.merge(rec_subset, on="month", how="left"); one output row
\* for every right row with the left row's month, or one row of NaN
RECURSIVE LeftMerge(_, _)
LeftMerge(plan, rec_subset) ==
    IF plan = <<>> THEN <<>>
    ELSE LET left == Head(plan)
             hits == SelectSeq(rec_subset, LAMBDA r : r.month = left.month)
             joined ==
                 IF hits = <<>>
                 THEN <<left @@ [c \in RealFields |-> NaN]>>
                 ELSE [k \in 1..Len(hits) |->
                          left @@ Restrict(hits[k], RealFields)]
         IN  joined \o LeftMerge(Tail(plan), rec_subset)

\* lines 156-158: coerce, fill NaN with 0.0, rename with the _real suffix
RealName(c) ==
    CASE c = "salary" -> "salary_real"
      [] c = "expense" -> "expense_real"
      [] c = "asset_change" -> "asset_change_real"
      [] c = "cash_transfer" -> "cash_transfer_real"

FillAndRename(row) ==
    Restrict(row, DOMAIN row \ RealFields)
        @@ [n \in {RealName(c) : c \in RealFields} |->
               LET c == CHOOSE x \in RealFields : RealName(x) = n
               IN  IF row[c] = NaN THEN RZero ELSE row[c]]

\* lines 161-163
SavingReal(row) ==
    RAdd(RAdd(RSub(row.salary_real, row.expense_real), row.asset_change_real),
         row.cash_transfer_real)

\* line 168: the first row whose month is >= the normalized anchor month;
\* 0 stands for None
StartIdx(merged, initial_asset_month) ==
    LET anchor == NormalizeMonth(initial_asset_month)
        at == {k \in 1..Len(merged) : DateLe(anchor, merged[k].month)}
    IN  IF at = {} THEN 0 ELSE CHOOSE k \in at : \A j \in at : k <= j

\* line 172: the running sum of saving_real over rows from..k
RECURSIVE CumSaving(_, _, _)
CumSaving(rows, from, k) ==
    IF k < from THEN RZero
    ELSE RAdd(CumSaving(rows, from, k - 1), rows[k].saving_real)

\* lines 166-173
TotalAssetReal(rows, k, start_idx, initial_asset_amount) ==
    IF start_idx # 0 /\ k >= start_idx
    THEN RAdd(initial_asset_amount, CumSaving(rows, start_idx, k))
    ELSE None

\* lines 176-186: older plan column names take their suffixed names
OldPlanName(c) ==
    CASE c = "total_asset_plan" -> "fc_total_asset"
      [] c = "monthly_saving_plan" -> "monthly_saving"
      [] c = "cumulative_saving_plan" -> "cumulative_saving"
      [] c = "suggested_expense_plan" -> "suggested_expense"

\* line 189
PlanColumns == {"total_asset_plan", "monthly_saving_plan",
                "cumulative_saving_plan", "suggested_expense_plan"}

OldPlanColumns == {OldPlanName(c) : c \in PlanColumns}

RenamePlanColumns(row) ==
    LET renamed == {c \in PlanColumns : OldPlanName(c) \in DOMAIN row}
    IN  [c \in renamed |-> row[OldPlanName(c)]]
            @@ Restrict(row, DOMAIN row \ OldPlanColumns)

\* lines 189-191: a plan column the frame lacks is added, holding None
DefaultPlanColumns(row) ==
    row @@ [c \in PlanColumns |-> None]

\* variant: the working frame is the caller's frame itself (no .copy())
CopyFrame_Alias(df) == [rows |-> df, own |-> FALSE]

\* lines 128-129: df.copy() is a frame of its own
CopyFrame(df) == [rows |-> df, own |-> TRUE]

\* lines 132-136: the assignment to the "month" column writes into the
\* working frame; the caller's frame shows it only if that frame is shared
CallerFrameAfter(df) ==
    LET working == CopyFrame(df)
    IN  IF working.own \/ df = <<>> THEN df ELSE NormalizeMonths(working.rows)

AddRealFinance(plan_df, records_df, initial_asset_month, initial_asset_amount) ==
    LET plan0 == NormalizeMonths(plan_df)
        records == NormalizeMonths(records_df)
        months == SortedUniqueMonths(records)
        plan == IF plan0 = <<>>
                THEN [k \in 1..Len(months) |-> [month |-> months[k]]]
                ELSE plan0
        joined == LeftMerge(plan, RecSubset(records))
        filled == [k \in 1..Len(joined) |-> FillAndRename(joined[k])]
        saved == [k \in 1..Len(filled) |->
                     filled[k] @@ [saving_real |-> SavingReal(filled[k])]]
        start_idx == StartIdx(saved, initial_asset_month)
        merged == [k \in 1..Len(saved) |->
                      saved[k] @@ [total_asset_real |->
                          TotalAssetReal(saved, k, start_idx,
                                         initial_asset_amount)]]
    IN  IF plan0 = <<>> /\ records = <<>>
        THEN <<>>
        ELSE [k \in 1..Len(merged) |->
                 DefaultPlanColumns(RenamePlanColumns(merged[k]))]

-----------------------------------------------------------------------------
(* add_real_finance applied to bounded inputs.                             *)

\* a plan as generate_plan_projection returns it, h months from Dec 2025
PlanOfLength(h) ==
    GeneratePlanProjection(R(0), Date(2025, 12, 1), R(1),
                           AddMonths(Date(2025, 12, 1), h), R(2), R(0),
                           R(0)).value

PlanChoices == {<<>>} \cup {PlanOfLength(h) : h \in 1..MaxPlanRows}

\* record months as the editor can hold them: any day of the month, in any
\* order, repeated or not, inside or outside the plan's horizon
RecordDates == {Date(2026, 1, 1), Date(2026, 1, 15), Date(2026, 2, 1),
                Date(2026, 9, 1)}

RecordAmounts ==
    {[salary |-> R(0), expense |-> R(0), asset_change |-> R(0),
      cash_transfer |-> R(0)],
     [salary |-> R(5), expense |-> R(2), asset_change |-> R(0),
      cash_transfer |-> R(0)],
     [salary |-> R(7), expense |-> R(3), asset_change |-> R(1),
      cash_transfer |-> R(-2)]}

RecordChoices ==
    {[month |-> d] @@ a : d \in RecordDates, a \in RecordAmounts}

SeqsUpTo(S, n) == UNION {[1..k -> S] : k \in 0..n}

AnchorMonths == {Date(2025, 12, 1), Date(2026, 2, 20), Date(2026, 12, 1)}

RecInputs ==
    [plan_df : PlanChoices,
     records_df : SeqsUpTo(RecordChoices, MaxRecords),
     initial_asset_month : AnchorMonths,
     initial_asset_amount : {R(100)}]

RecInit ==
    /\ rpc = "input"
    /\ rin \in RecInputs
    /\ rout = NotCalled
    /\ PlanIdle
    /\ SessIdle

CallAddRealFinance ==
    /\ rpc = "input"
    /\ rout' = Returned(AddRealFinance(rin.plan_df, rin.records_df,
                            rin.initial_asset_month, rin.initial_asset_amount))
    /\ rin' = [rin EXCEPT !.plan_df = CallerFrameAfter(@),
                           !.records_df = CallerFrameAfter(@)]
    /\ rpc' = "done"
    /\ UNCHANGED <<planVars, sessVars>>

RecNext == CallAddRealFinance

SpecRec == RecInit /\ [][RecNext]_vars

-----------------------------------------------------------------------------
(* main.py: the Streamlit session.  Each press of a button reruns the      *)
(* script; the state that survives a rerun is st.session_state.            *)

MaxSessRows == 2
MaxTicks == 2

\* main.py 12-38
REAL_COLS == {"total_asset", "earned_income", "expense", "saving", "cumulative_saving", "investment_gain", "cumulative_investment_gain", "total_gain", "cumulative_total_gain"}
EDITABLE_COLS == {"total_asset", "earned_income", "expense"}

\* main.py 44-83: the solve and generate calls behind the Generate Plan
\* button; the plan carries no income escalation
MainGeneratePlannedFinance(current_monthly_salary, initial_asset, initial_time, target_asset_value, target_time, annual_return_rate_percent) ==
    GeneratePlannedFinance(current_monthly_salary, initial_asset, initial_time, target_asset_value, target_time, annual_return_rate_percent, RZero)

\* main.py 201-227: update_whole_df, given the frame stored so far
UpdateWholeDf(plan_df, stored) ==
    IF plan_df = <<>> THEN stored
    ELSE Stored([k \in 1..Len(plan_df) |->
                    [c \in REAL_COLS |-> RZero] @@ plan_df[k]])

\* variant: the emptied plan_df of the except branch is stored
GeneratePlanBlock_StoresEmptyOnFailure(s, stored) ==
    IF MonthsBetween(s.initial_asset_month, s.target_time) <= 0
    THEN [outcome |-> "rejected", whole_df |-> stored]
    ELSE LET plan == MainGeneratePlannedFinance(s.current_monthly_salary,
                         s.initial_asset_amount, s.initial_asset_month,
                         s.target_asset_value, s.target_time,
                         s.fc_annual_rate_percent)
         IN  IF plan.raised
             THEN [outcome |-> "failed", whole_df |-> Stored(<<>>)]
             ELSE [outcome |-> "ok",
                   whole_df |-> UpdateWholeDf(plan.value, stored)]

\* main.py 320-345: the plan generation block of a Generate Plan rerun
GeneratePlanBlock(s, stored) ==
    IF MonthsBetween(s.initial_asset_month, s.target_time) <= 0
    THEN [outcome |-> "rejected", whole_df |-> stored]
    ELSE LET plan == MainGeneratePlannedFinance(s.current_monthly_salary,
                         s.initial_asset_amount, s.initial_asset_month,
                         s.target_asset_value, s.target_time,
                         s.fc_annual_rate_percent)
         IN  IF plan.raised
             THEN [outcome |-> "failed", whole_df |-> stored]
             ELSE [outcome |-> "ok",
                   whole_df |-> UpdateWholeDf(plan.value, stored)]

\* Series.cumsum(): the sum of the first k entries
RECURSIVE CumSum(_, _)
CumSum(series, k) ==
    IF k = 0 THEN RZero ELSE RAdd(CumSum(series, k - 1), series[k])

\* variant: cumulative_saving is the month's saving, not the running sum
ApplyRealFinanceUpdate_NoRunningSum(df, initial_asset_amount) ==
    LET n == Len(df)
        saving == [k \in 1..n |-> RSub(df[k].earned_income, df[k].expense)]
        total_gain == [k \in 1..n |->
            IF k = 1 THEN RSub(df[1].total_asset, initial_asset_amount)
            ELSE RSub(df[k].total_asset, df[k - 1].total_asset)]
        investment_gain == [k \in 1..n |-> RSub(total_gain[k], saving[k])]
    IN  [k \in 1..n |->
            [total_asset |-> df[k].total_asset,
             earned_income |-> df[k].earned_income,
             expense |-> df[k].expense,
             saving |-> saving[k],
             cumulative_saving |-> saving[k],
             total_gain |-> total_gain[k],
             cumulative_total_gain |-> CumSum(total_gain, k),
             investment_gain |-> investment_gain[k],
             cumulative_investment_gain |-> CumSum(investment_gain, k)]]

\* variant: the first row's total_gain is left as the whole balance
ApplyRealFinanceUpdate_FirstGainFromZero(df, initial_asset_amount) ==
    LET n == Len(df)
        saving == [k \in 1..n |-> RSub(df[k].earned_income, df[k].expense)]
        total_gain == [k \in 1..n |->
            IF k = 1 THEN df[1].total_asset
            ELSE RSub(df[k].total_asset, df[k - 1].total_asset)]
        investment_gain == [k \in 1..n |-> RSub(total_gain[k], saving[k])]
    IN  [k \in 1..n |->
            [total_asset |-> df[k].total_asset,
             earned_income |-> df[k].earned_income,
             expense |-> df[k].expense,
             saving |-> saving[k],
             cumulative_saving |-> CumSum(saving, k),
             total_gain |-> total_gain[k],
             cumulative_total_gain |-> CumSum(total_gain, k),
             investment_gain |-> investment_gain[k],
             cumulative_investment_gain |-> CumSum(investment_gain, k)]]

\* main.py 268-286: apply_real_finance_update
ApplyRealFinanceUpdate(df, initial_asset_amount) ==
    LET n == Len(df)
        saving == [k \in 1..n |-> RSub(df[k].earned_income, df[k].expense)]
        total_gain == [k \in 1..n |->
            IF k = 1 THEN RSub(df[1].total_asset, initial_asset_amount)
            ELSE RSub(df[k].total_asset, df[k - 1].total_asset)]
        investment_gain == [k \in 1..n |-> RSub(total_gain[k], saving[k])]
    IN  [k \in 1..n |->
            [total_asset |-> df[k].total_asset,
             earned_income |-> df[k].earned_income,
             expense |-> df[k].expense,
             saving |-> saving[k],
             cumulative_saving |-> CumSum(saving, k),
             total_gain |-> total_gain[k],
             cumulative_total_gain |-> CumSum(total_gain, k),
             investment_gain |-> investment_gain[k],
             cumulative_investment_gain |-> CumSum(investment_gain, k)]]

\* variant: every row is written back, whatever its month
WriteBack_NoMask(df, updated_df, current_month) ==
    [k \in 1..Len(df) |-> [c \in REAL_COLS |-> updated_df[k][c]] @@ df[k]]

\* main.py 258-262: REAL_COLS of the rows up to the current month are
\* taken from updated_df, everything else from a copy of df
WriteBack(df, updated_df, current_month) ==
    [k \in 1..Len(df) |->
        IF DateLe(df[k].month, current_month)
        THEN [c \in REAL_COLS |-> updated_df[k][c]] @@ df[k]
        ELSE df[k]]

\* main.py 303-313, 348-352: the amount handed to the editor on a rerun
\* without Generate Plan
EditorInitialAsset(settings, sidebar_amount) ==
    IF settings = NoSettings THEN sidebar_amount
    ELSE settings.initial_asset_amount

\* the sidebar's values when Generate Plan is pressed (app/ui.py 70-126)
SessInitialAssets == {R(4), R(8), R(12)}
SessInitialMonths == {Date(2025, 12, 1)}
SessTargetAssets == {R(12)}
SessSalaries == {R(5)}
SessRates == {R(0)}
SidebarInputs ==
    {[initial_asset_amount |-> a, initial_asset_month |-> m,
      target_asset_value |-> t, target_time |-> AddMonths(m, h),
      current_monthly_salary |-> w, fc_annual_rate_percent |-> r] :
        a \in SessInitialAssets, m \in SessInitialMonths,
        t \in SessTargetAssets, h \in 0..MaxSessRows,
        w \in SessSalaries, r \in SessRates}

\* what the user types into one row of the editor (EDITABLE_COLS)
EditedRows ==
    {[total_asset |-> R(10), earned_income |-> R(5), expense |-> R(2)],
     [total_asset |-> R(13), earned_income |-> R(7), expense |-> R(3)]}

SessInit ==
    /\ SessIdle
    /\ PlanIdle
    /\ RecIdle

\* main.py 291-345: a rerun with the Generate Plan button pressed
GeneratePlan ==
    \E s \in SidebarInputs :
        LET g == GeneratePlanBlock(s, whole_df)
        IN  /\ plan_settings' = s
            /\ whole_df' = g.whole_df
            /\ last' = [kind |-> "generate", outcome |-> g.outcome,
                        value |-> <<>>]
            /\ generated_from' =
                   IF g.outcome = "ok" THEN s ELSE generated_from
            /\ UNCHANGED <<today, planVars, recVars>>

\* main.py 229-266, 303-313, 348-352: a rerun with Update table pressed
UpdateTable ==
    /\ whole_df.stored
    /\ \E edited_df \in [1..Len(whole_df.rows) -> EditedRows],
          sidebar_amount \in SessInitialAssets :
        LET updated_df == ApplyRealFinanceUpdate(edited_df,
                              EditorInitialAsset(plan_settings,
                                                 sidebar_amount))
        IN  /\ whole_df' = Stored(WriteBack(whole_df.rows, updated_df, today))
            /\ last' = [kind |-> "update", outcome |-> "ok",
                        value |-> updated_df]
    /\ UNCHANGED <<plan_settings, today, generated_from, planVars, recVars>>

\* the calendar moves on to the next month
Tick ==
    /\ MonthsBetween(FirstToday, today) < MaxTicks
    /\ today' = AddMonths(today, 1)
    /\ UNCHANGED <<plan_settings, whole_df, last, generated_from, planVars, recVars>>

Next == GeneratePlan \/ UpdateTable \/ Tick

Spec == SessInit /\ [][Next]_vars

-----------------------------------------------------------------------------
(* Properties of the plan functions, checked under SpecPlan.               *)

\* the calendar month as a count of months, stated without MonthsBetween
Ord(t) == t.year * 12 + (t.month - 1)
Horizon == Ord(inp.target_time) - Ord(inp.initial_time)

\* the inputs the solver's contract accepts, stated from the contract
Accepted(rate) ==
    /\ Horizon >= 1
    /\ RLt(inp.initial_asset, inp.target_asset_value)
    /\ RLe(RZero, rate)

\* initial_asset * (1 + monthly_rate)^months: the balance that growth alone
\* reaches over the horizon
GrowthOnly(rate) ==
    RMul(inp.initial_asset, RPow(RAdd(ROne, MonthlyRate(rate)), Horizon))

Last(rows) == rows[Len(rows)]

\* C1 (as claimed): for every accepted input, the timeline generated with
\* the solved contribution ends on a planned_total_asset equal to
\* target_asset.
C1_AsClaimed ==
    (pc \in {"planned", "done"} /\ Accepted(inp.rate) /\ ~planned.raised)
        => Last(planned.value).total_asset_plan = inp.target_asset_value

\* C1 (amended): for every accepted input for which a timeline is returned,
\* the last planned_total_asset equals target_asset when growth alone does
\* not exceed the target; otherwise the contribution is 0 and the last
\* planned_total_asset is initial_asset * (1 + monthly_rate)^months, above
\* the target.
C1_RoundTrip ==
    (pc \in {"planned", "done"} /\ Accepted(inp.rate) /\ ~planned.raised)
        => LET final == Last(planned.value).total_asset_plan
           IN  IF RLe(GrowthOnly(inp.rate), inp.target_asset_value)
               THEN final = inp.target_asset_value
               ELSE /\ final = GrowthOnly(inp.rate)
                    /\ RLt(inp.target_asset_value, final)
                    /\ sol.value = RZero

C1_Witness ==
    /\ pc = "done"
    /\ Accepted(inp.rate)
    /\ Compounds(inp.rate)
    /\ Horizon >= 3
    /\ ~planned.raised
    /\ RLt(RZero, sol.value)
    /\ RLt(RZero, inp.initial_asset)
    /\ Last(planned.value).total_asset_plan = inp.target_asset_value

\* the closed form the solver evaluates for the current input
ClosedFormOfInput(rate) ==
    ClosedFormSaving(inp.initial_asset, inp.target_asset_value, Horizon,
                     MonthlyRate(rate))

\* C2 (as claimed): for every accepted input the closed-form contribution
\* is never negative, so the floor at 0 never changes what solve returns.
C2_AsClaimed ==
    (pc # "input" /\ Accepted(inp.rate))
        => /\ RLe(RZero, ClosedFormOfInput(inp.rate))
           /\ sol.value = ClosedFormOfInput(inp.rate)

\* C2 (amended): for every accepted input the closed-form contribution is
\* non-negative exactly when initial_asset * (1 + monthly_rate)^months <=
\* target_asset, and then solve returns it unchanged; otherwise it is
\* negative and solve returns 0.
C2_FloorOnlyWhenGrowthExceeds ==
    (pc # "input" /\ Accepted(inp.rate))
        => /\ ~sol.raised
           /\ IF RLe(GrowthOnly(inp.rate), inp.target_asset_value)
              THEN /\ RLe(RZero, ClosedFormOfInput(inp.rate))
                   /\ sol.value = ClosedFormOfInput(inp.rate)
              ELSE /\ RLt(ClosedFormOfInput(inp.rate), RZero)
                   /\ sol.value = RZero

C2_Witness ==
    /\ pc # "input"
    /\ Accepted(inp.rate)
    /\ RLt(inp.target_asset_value, GrowthOnly(inp.rate))
    /\ sol.value = RZero

\* C3: solve raises, and returns no contribution, exactly when months <= 0
\* or initial_asset >= target_asset or annual_rate_percent < 0; for every
\* other input it returns a contribution.
C3_SolveRejectsExactlyInvalid ==
    (pc # "input")
        => /\ sol.raised <=> ~Accepted(inp.rate)
           /\ sol.raised => sol = Raised
           /\ ~sol.raised => /\ sol.value \in Int \X Int
                             /\ RLe(RZero, sol.value)

C3_Witness ==
    /\ pc # "input"
    /\ sol.raised
    /\ Horizon >= 1
    /\ inp.initial_asset = inp.target_asset_value
    /\ RLe(RZero, inp.rate)

\* the Januaries among the first k simulated months
Januaries(k) ==
    Cardinality({j \in 1..k : (Ord(inp.initial_time) + j) % 12 = 0})

\* the income the plan states for the k-th simulated month
IncomeOfMonth(k) ==
    RMul(inp.income,
         RPow(RAdd(ROne, RDiv(inp.income_increase_rate, R(100))),
              Januaries(k)))

ShortOfIncome(saving, k) == RLt(RSub(IncomeOfMonth(k), saving), RZero)

C5_OneRowPerMonth ==
    (pc = "done" /\ Horizon >= 1 /\ ~proj.raised)
        => /\ Len(proj.value) = Horizon
           /\ \A k \in 1..Len(proj.value) :
                 LET m == proj.value[k].month
                 IN  /\ m.month \in 1..12
                     /\ m.day = 1
                     /\ Ord(m) = Ord(inp.initial_time) + k
           /\ Last(proj.value).month = inp.target_time

C5_Witness ==
    /\ pc = "done"
    /\ ~proj.raised
    /\ inp.initial_time.month = 12
    /\ Horizon >= 14
    /\ Len(proj.value) = Horizon

\* C6: the planned income of a simulated month is the starting income
\* multiplied by (1 + annual_income_increase_rate_percent / 100) once for
\* each January after initial_month up to and including that month.
C6_EscalationOncePerJanuary ==
    (pc = "done" /\ Horizon >= 1 /\ ~proj.raised)
        => \A k \in 1..Len(proj.value) :
               proj.value[k].earned_income_plan = IncomeOfMonth(k)

C6_Witness ==
    /\ pc = "done"
    /\ ~proj.raised
    /\ inp.income_increase_rate # RZero
    /\ Len(proj.value) = Horizon
    /\ Januaries(Horizon) = 2
    /\ Januaries(Horizon - 1) = 2
    /\ Last(proj.value).earned_income_plan
           = RMul(inp.income,
                  RPow(RAdd(ROne, RDiv(inp.income_increase_rate, R(100))), 2))

\* C7: for every accepted input with annual rate 0, solve returns exactly
\* (target_asset - initial_asset) / months.
C7_LinearSplitAtZeroRate ==
    (pc # "input" /\ Accepted(inp.rate) /\ inp.rate = RZero)
        => sol = Returned(RDiv(RSub(inp.target_asset_value, inp.initial_asset),
                               R(Horizon)))

C7_Witness ==
    /\ pc # "input"
    /\ inp.rate = RZero
    /\ Horizon = 3
    /\ inp.initial_asset = R(-8)
    /\ inp.target_asset_value = R(8)
    /\ sol = Returned(<<16, 3>>)

\* C8 (as claimed): for fixed initial_asset, target_asset and months, and
\* accepted rates r1 <= r2, solve at r2 is at most solve at r1.
C8_AsClaimed ==
    (pc \in {"compared", "planned", "done"}
        /\ Accepted(inp.rate) /\ Accepted(inp.rate2))
        => RLe(alt.value, sol.value)

\* C8 (amended): the same, for initial_asset >= 0.
C8_MonotoneForNonNegativeAsset ==
    (pc \in {"compared", "planned", "done"}
        /\ Accepted(inp.rate) /\ Accepted(inp.rate2)
        /\ RLe(RZero, inp.initial_asset))
        => RLe(alt.value, sol.value)

C8_Witness ==
    /\ pc = "compared"
    /\ Accepted(inp.rate) /\ Accepted(inp.rate2)
    /\ Compounds(inp.rate)
    /\ RLt(inp.rate, inp.rate2)
    /\ RLt(RZero, inp.initial_asset)
    /\ RLt(RZero, alt.value)
    /\ RLt(alt.value, sol.value)

-----------------------------------------------------------------------------
(* Properties of add_real_finance, checked under SpecRec.                  *)

MonthsOf(df) == [k \in 1..Len(df) |-> df[k].month]

\* the calendar months (first-of-month) that occur in the records
ActualMonths == {Date(rin.records_df[k].month.year,
                      rin.records_df[k].month.month, 1) :
                     k \in 1..Len(rin.records_df)}

\* at most one record per calendar month
OneRecordPerMonth ==
    \A j, k \in 1..Len(rin.records_df) :
        (j # k) => \/ rin.records_df[j].month.year
                          # rin.records_df[k].month.year
                   \/ rin.records_df[j].month.month
                          # rin.records_df[k].month.month

\* C9: when planned is non-empty, the output timeline is exactly the
\* planned month sequence (one output row per planned row, same months,
\* same order) for every actual input; actual months that are not planned
\* months do not appear.
C9_TimelineIsPlannedMonths ==
    (rpc = "done" /\ rin.plan_df # <<>>)
        => MonthsOf(rout.value) = MonthsOf(rin.plan_df)

\* C9, where it does hold: with at most one record per calendar month
C9_HoldsWithOneRecordPerMonth ==
    (rpc = "done" /\ rin.plan_df # <<>> /\ OneRecordPerMonth)
        => MonthsOf(rout.value) = MonthsOf(rin.plan_df)

\* C10: when planned is empty, the output has exactly one row per distinct
\* month present in actual, in ascending month order (empty when actual is
\* empty), and no planned column is populated in any row.
C10_TimelineIsDistinctActualMonths ==
    (rpc = "done" /\ rin.plan_df = <<>>)
        => /\ Len(rout.value) = Cardinality(ActualMonths)
           /\ {rout.value[k].month : k \in 1..Len(rout.value)} = ActualMonths
           /\ \A j, k \in 1..Len(rout.value) :
                  (j < k) => Ord(rout.value[j].month) < Ord(rout.value[k].month)
           /\ \A k \in 1..Len(rout.value) :
                  \A c \in DOMAIN rout.value[k] :
                      \/ c \in {"month", "salary_real", "expense_real",
                                "asset_change_real", "cash_transfer_real",
                                "saving_real", "total_asset_real"}
                      \/ rout.value[k][c] = None

\* C10, where it does hold: with at most one record per calendar month
C10_HoldsWithOneRecordPerMonth ==
    (rpc = "done" /\ OneRecordPerMonth) => C10_TimelineIsDistinctActualMonths

-----------------------------------------------------------------------------
(* More properties of the plan functions, checked under SpecPlan.          *)

\* the balance before the k-th simulated month
BalanceBefore(k) ==
    IF k = 1 THEN inp.initial_asset ELSE proj.value[k - 1].total_asset_plan

\* C18: with balance_0 = initial_asset, the i-th row of the timeline has
\* planned_total_asset = balance_(i-1) * (1 + monthly_rate) + contribution
\* (the balance compounds first, the contribution is added afterwards) and
\* cumulative_contribution = i * contribution.
C18_CompoundThenContribute ==
    (pc = "done" /\ Horizon >= 1 /\ ~proj.raised)
        => \A k \in 1..Len(proj.value) :
               /\ proj.value[k].total_asset_plan
                      = RAdd(RMul(BalanceBefore(k),
                                  RAdd(ROne, MonthlyRate(inp.rate))),
                             inp.saving)
               /\ proj.value[k].cumulative_saving_plan
                      = RMul(R(k), inp.saving)

C18_Witness ==
    /\ pc = "done"
    /\ ~proj.raised
    /\ Compounds(inp.rate)
    /\ Len(proj.value) >= 3
    /\ RLt(RZero, inp.saving)
    /\ RLt(RZero, inp.initial_asset)
    /\ proj.value[3].cumulative_saving_plan = RMul(R(3), inp.saving)
    /\ RLt(proj.value[2].total_asset_plan, proj.value[3].total_asset_plan)

-----------------------------------------------------------------------------
(* More properties of add_real_finance, checked under SpecRec.             *)

RowsOfMonth(df, m) == {k \in 1..Len(df) : df[k].month = m}

RawRealColumns == {"salary_real", "expense_real", "asset_change_real",
                   "cash_transfer_real"}

\* C11: for every month of the timeline that has no matching actual
\* record, each actual-side raw field is zero (not absent) and the row's
\* saving is 0.
C11_UnmatchedMonthsAreZero ==
    (rpc = "done" /\ rin.plan_df # <<>>)
        => \A p \in 1..Len(rin.plan_df) :
               LET m == rin.plan_df[p].month
               IN  (m \notin ActualMonths)
                       => /\ RowsOfMonth(rout.value, m) # {}
                          /\ \A k \in RowsOfMonth(rout.value, m) :
                                 /\ \A c \in RawRealColumns :
                                        /\ c \in DOMAIN rout.value[k]
                                        /\ rout.value[k][c] = RZero
                                 /\ rout.value[k].saving_real = RZero

C11_Witness ==
    /\ rpc = "done"
    /\ Len(rin.plan_df) >= 2
    /\ rin.plan_df[1].month \in ActualMonths
    /\ rin.plan_df[2].month \notin ActualMonths
    /\ \E k \in 1..Len(rout.value) :
           /\ rout.value[k].month = rin.plan_df[1].month
           /\ rout.value[k].saving_real # RZero
    /\ \E k \in 1..Len(rout.value) :
           /\ rout.value[k].month = rin.plan_df[2].month
           /\ rout.value[k].saving_real = RZero
           /\ rout.value[k].salary_real = RZero

\* the anchor month, first of the month
AnchorOrd == Ord(rin.initial_asset_month)

\* C12: actual-derived values (saving, derived total asset) are populated
\* only on rows from the anchor row onward: every row strictly before the
\* anchor month carries none (absent, not zero), and when the anchor month
\* is after the whole timeline no row carries any.
C12_NothingBeforeAnchor ==
    (rpc = "done")
        => \A k \in 1..Len(rout.value) :
               IF Ord(rout.value[k].month) < AnchorOrd
               THEN /\ rout.value[k].saving_real = None
                    /\ rout.value[k].total_asset_real = None
               ELSE /\ rout.value[k].saving_real # None
                    /\ rout.value[k].total_asset_real # None

\* C12, the part that does hold: the derived total asset is anchored
C12_TotalAssetIsAnchored ==
    (rpc = "done")
        => \A k \in 1..Len(rout.value) :
               (Ord(rout.value[k].month) < AnchorOrd)
                   <=> (rout.value[k].total_asset_real = None)

\* C13: in every row that carries actual-derived values, saving equals the
\* month's earned income minus its expense; no other recorded field (asset
\* adjustment, transfer) changes saving.
C13_SavingIsIncomeMinusExpense ==
    (rpc = "done")
        => \A k \in 1..Len(rout.value) :
               rout.value[k].saving_real
                   = RSub(rout.value[k].salary_real,
                          rout.value[k].expense_real)

-----------------------------------------------------------------------------
(* Properties of the session, checked under Spec.                          *)

\* the frame apply_real_finance_update returned to the last Update table
UpdatedDf == last.value
SavingOf(rows) == [k \in 1..Len(rows) |-> rows[k].saving]
AllZero(row) == \A c \in REAL_COLS : row[c] = RZero
NotAfterToday(rows) == {k \in 1..Len(rows) : DateLe(rows[k].month, today)}

\* the per-row saving of C13, as apply_real_finance_update computes it
C13_UpdateSavingIsIncomeMinusExpense ==
    last.kind = "update" =>
        \A k \in 1..Len(UpdatedDf) :
            UpdatedDf[k].saving
                = RSub(UpdatedDf[k].earned_income, UpdatedDf[k].expense)

C15_TotalGainIsChangeInTotalAsset ==
    last.kind = "update" =>
        \A k \in 1..Len(UpdatedDf) :
            RAdd(UpdatedDf[k].total_gain,
                 IF k = 1 THEN plan_settings.initial_asset_amount
                 ELSE UpdatedDf[k - 1].total_asset)
                = UpdatedDf[k].total_asset

\* an update of two rows anchored at a non-zero initial asset amount
C15_Witness ==
    /\ last.kind = "update"
    /\ Len(UpdatedDf) >= 2
    /\ plan_settings.initial_asset_amount # RZero
    /\ UpdatedDf[1].total_gain # UpdatedDf[1].total_asset
    /\ UpdatedDf[2].total_gain # RZero

\* C16: a Generate Plan request that is rejected or fails leaves the stored
\* timeline exactly as it was.
C16_FailedGenerateKeepsTimeline ==
    [][(last'.kind = "generate" /\ last'.outcome # "ok")
           => whole_df' = whole_df]_vars

\* a failed request after a timeline was generated and filled in
C16_Witness ==
    /\ last.kind = "generate"
    /\ last.outcome = "failed"
    /\ whole_df.stored
    /\ \E k \in 1..Len(whole_df.rows) : ~AllZero(whole_df.rows[k])

C20_UpdateTouchesOnlyActualColumnsUpToToday ==
    [][(last'.kind = "update" /\ today' = today) =>
           /\ whole_df'.stored
           /\ Len(whole_df'.rows) = Len(whole_df.rows)
           /\ \A k \in 1..Len(whole_df.rows) :
                  LET old == whole_df.rows[k]
                      new == whole_df'.rows[k]
                  IN  /\ DOMAIN new = DOMAIN old
                      /\ \A c \in (DOMAIN old) \ REAL_COLS : new[c] = old[c]
                      /\ DateLt(today, old.month) => new = old]_vars

\* an update that wrote one row and left a later row, edited too, alone
C20_Witness ==
    /\ last.kind = "update"
    /\ \E j, k \in 1..Len(whole_df.rows) :
           /\ ~AllZero(whole_df.rows[j])
           /\ DateLt(today, whole_df.rows[k].month)
           /\ AllZero(whole_df.rows[k])
           /\ UpdatedDf[k].total_asset # RZero

=============================================================================
